---- MODULE Spec2Model ----
(***************************************************************************)
(* Model of the meta server of zeppelin (src/meta/zp_meta_server.cc): the  *)
(* LeaderJoint (RefreshLeader, IsLeader, RedirectToLeader), the migration  *)
(* engine (Migrate, ProcessMigrate), WaitSetMaster, the NodeOffsets map,   *)
(* the Pull handlers, Start and its cron (DoTimingTask, CheckNodeAlive),   *)
(* and the collaborators they drive: the UpdateThread FIFO, the            *)
(* ConditionCron set, the MigrateRegister and the InfoStore.               *)
(***************************************************************************)
EXTENDS Integers, Sequences, FiniteSets, TLC

\* ------------------------------------------------------------------------
\* Bounds of the model
\* ------------------------------------------------------------------------
\* longest history of UpdateTasks handed to the UpdateThread
MaxTasks == 4
\* largest number of InfoStore.RestoreNodeAlive calls followed
MaxRestore == 2

\* ------------------------------------------------------------------------
\* Program constants and configuration
\* ------------------------------------------------------------------------
kMetaPortShiftCmd == 1
kMetaPortShiftFY == 2
kMetaMigrateOnceCount == 2
kInitMigrateRetryNum == 2
kOffsetGapTolerance == 0
\* node alive TTL, in steps of the clock the heartbeat ages are counted in
kNodeAliveTTL == 1

\* g_zp_conf->local_ip(), g_zp_conf->local_port()
local_ip == "m1"
local_port == 10

\* g_zp_conf->meta_addr(): the meta peers, all on the same base port
MetaIps == {"m1", "m2", "m3"}
NoLeader == "none"

\* the storage nodes
NodeA == [ip |-> "a", port |-> 1]
NodeB == [ip |-> "b", port |-> 2]
NodeC == [ip |-> "c", port |-> 3]
Nodes == {NodeA, NodeB, NodeC}

TableName == "T"
Partitions == {0}
\* table names a request may carry; no table is named U
TableInputs == {"T", "U"}
\* partition ids a request may name; 7 names no partition of the table
PartitionInputs == {0, 7}

\* NodeOffset(filenum, offset) values a Ping may report
NodeOffset(filenum, offset) == [filenum |-> filenum, offset |-> offset]
OffsetInputs == {NodeOffset(0, 1), NodeOffset(1, 0)}

\* ZPMeta::RelationCmdUnit
RelationCmdUnit(table, partition, left, right) ==
  [table |-> table, partition |-> partition, left |-> left, right |-> right]
\* the migration plans a Migrate request may carry
DiffsInputs ==
  { << >>,
    << RelationCmdUnit(TableName, 0, NodeA, NodeC) >>,
    << RelationCmdUnit(TableName, 0, NodeA, NodeC),
       RelationCmdUnit(TableName, 0, NodeB, NodeC),
       RelationCmdUnit(TableName, 0, NodeB, NodeA) >> }

NoCli == "NULL"
\* a pink::NewPbCli() client before its Connect
NewPbCli == "unconnected"

VARIABLES
  alive,            \* FALSE once an assertion has aborted the process
  floyd_leader,     \* the leader floyd_->GetLeader would report, or NoLeader
  leader_joint,     \* leader_joint_: [ip, port, cli]
  refresh_ret,      \* last RefreshLeader call: what the log reported, status
  restore_calls,    \* number of InfoStore.RestoreNodeAlive calls so far
  redirect_ret,     \* last RedirectToLeader call: status, where it was sent
  info_store,       \* info_store_: [epoch, tables]
  node_offsets,     \* node_offsets_.offsets: NodeOffsetKey -> NodeOffset
  pending_log,      \* every UpdateTask given to PendingUpdate, in FIFO order
  applied,          \* how many of them the UpdateThread worker has applied
  condition_cron,   \* pending ConditionCron entries
  migrate_register, \* the MigrateRegister's list of items
  next_req,         \* id given to the next staged request
  ret,              \* last Migrate / ProcessMigrate / WaitSetMaster call
  node_alive,       \* InfoStore liveness: "ip:port" -> [state, age]
  start_pc,         \* where ZPMetaServer::Start is
  should_exit,      \* should_exit_
  serving,          \* server_thread_ (the dispatcher) has been started
  loaded,           \* the last startup InfoStore.Refresh returned OK
  timing,           \* last DoTimingTask: leader found, Refresh called
  joint_mutex,      \* holder of leader_joint_.mutex, or "free"
  refresh_io,       \* the blocking call RefreshLeader is in, or "none"
  pull              \* the Pull in progress and its response

leaderVars == <<floyd_leader, leader_joint, refresh_ret, restore_calls,
                redirect_ret>>
topoVars == <<info_store, node_offsets, pending_log, applied, condition_cron,
              migrate_register, next_req, ret>>
startVars == <<start_pc, should_exit, serving, loaded>>
serverVars == <<start_pc, should_exit, serving, loaded, timing, joint_mutex,
                refresh_io, pull>>
vars == <<alive, floyd_leader, leader_joint, refresh_ret, restore_calls,
          redirect_ret, info_store, node_offsets, pending_log, applied,
          condition_cron, migrate_register, next_req, ret, node_alive,
          start_pc, should_exit, serving, loaded, timing, joint_mutex,
          refresh_io, pull>>

\* ------------------------------------------------------------------------
\* Helpers
\* ------------------------------------------------------------------------
Min(a, b) == IF a < b THEN a ELSE b

\* slash::IpPortString
IpPortString(ip, port) == ip \o ":" \o ToString(port)

\* snprintf(buf, "%s_%u_%s:%u", table, partition_id, ip, port)
NodeOffsetKey(table, partition_id, ip, port) ==
  table \o "_" \o ToString(partition_id) \o "_" \o ip \o ":" \o ToString(port)

UpdateTask(op, ip_port, table, partition, req) ==
  [op |-> op, ip_port |-> ip_port, table |-> table, partition |-> partition,
   req |-> req]

OffsetCondition(table, partition, left, right) ==
  [table |-> table, partition |-> partition, left |-> left, right |-> right]

\* floyd_->GetLeader: the leader's ip and its floyd port
FloydGetLeader ==
  IF floyd_leader = NoLeader
    THEN [res |-> FALSE, ip |-> "", port |-> 0]
    ELSE [res |-> TRUE, ip |-> floyd_leader,
          port |-> local_port + kMetaPortShiftFY]

\* ZPMetaServer::GetLeader: the port is brought back to the base port
GetLeader ==
  LET fy == FloydGetLeader
  IN IF fy.res
       THEN [res |-> TRUE, ip |-> fy.ip, port |-> fy.port - kMetaPortShiftFY]
       ELSE [res |-> FALSE, ip |-> "", port |-> 0]

\* LeaderJoint::CleanLeader: close the connection, forget the leader
CleanLeader == [ip |-> "", port |-> 0, cli |-> NoCli]

\* ZPMetaServer::IsLeader
IsLeader ==
  /\ leader_joint.ip = local_ip
  /\ leader_joint.port = local_port + kMetaPortShiftCmd

\* ------------------------------------------------------------------------
\* Initial state: the process is constructed, Start has not run yet;
\* info_store is the topology the log holds
\* ------------------------------------------------------------------------
InitTables ==
  [p \in Partitions |-> [replicas |-> <<NodeA, NodeB>>, state |-> "ACTIVE"]]

\* the storage nodes the topology knows: a and b are UP, c is DOWN
InitNodeAlive ==
  [k \in {IpPortString(n.ip, n.port) : n \in Nodes} |->
     [state |-> IF k = IpPortString(NodeC.ip, NodeC.port) THEN "DOWN"
                ELSE "UP",
      age |-> 0]]

\* no Pull is in progress
NoPull ==
  [pc |-> "idle", node |-> "", version |-> 0, todo |-> << >>, info |-> << >>,
   status |-> "unset"]

Init ==
  /\ alive = TRUE
  /\ floyd_leader = NoLeader
  /\ leader_joint = CleanLeader
  /\ refresh_ret = [leader |-> "unset", status |-> "unset"]
  /\ restore_calls = 0
  /\ redirect_ret = [status |-> "unset", sent_to |-> "unset"]
  /\ info_store = [epoch |-> 0, tables |-> InitTables]
  /\ node_offsets = << >>
  /\ pending_log = << >>
  /\ applied = 0
  /\ condition_cron = {}
  /\ migrate_register = << >>
  /\ next_req = 1
  /\ ret = [op |-> "unset", status |-> "unset"]
  /\ node_alive = InitNodeAlive
  /\ start_pc = "Refresh"
  /\ should_exit = FALSE
  /\ serving = FALSE
  /\ loaded = FALSE
  /\ timing = [leader |-> "unset", refreshed |-> FALSE]
  /\ joint_mutex = "free"
  /\ refresh_io = "none"
  /\ pull = NoPull

\* Start has loaded the topology, found the local node to be the leader
\* and started the dispatcher; it is at its first DoTimingTask
InitStableLeader ==
  /\ alive = TRUE
  /\ floyd_leader = local_ip
  /\ leader_joint = CleanLeader
  /\ refresh_ret = [leader |-> local_ip, status |-> "OK"]
  /\ restore_calls = 1
  /\ redirect_ret = [status |-> "unset", sent_to |-> "unset"]
  /\ info_store = [epoch |-> 0, tables |-> InitTables]
  /\ node_offsets = << >>
  /\ pending_log = << >>
  /\ applied = 0
  /\ condition_cron = {}
  /\ migrate_register = << >>
  /\ next_req = 1
  /\ ret = [op |-> "unset", status |-> "unset"]
  /\ node_alive = InitNodeAlive
  /\ start_pc = "DoTimingTask"
  /\ should_exit = FALSE
  /\ serving = TRUE
  /\ loaded = TRUE
  /\ timing = [leader |-> "unset", refreshed |-> FALSE]
  /\ joint_mutex = "free"
  /\ refresh_io = "none"
  /\ pull = NoPull

\* ------------------------------------------------------------------------
\* The replicated log elects a leader (environment)
\* ------------------------------------------------------------------------
LeaderElection ==
  /\ alive
  /\ UNCHANGED serverVars
  /\ UNCHANGED node_alive
  /\ \E l \in MetaIps \cup {NoLeader} :
       /\ l # floyd_leader
       /\ floyd_leader' = l
  /\ UNCHANGED <<alive, leader_joint, refresh_ret, restore_calls,
                 redirect_ret>>
  /\ UNCHANGED topoVars

\* ------------------------------------------------------------------------
\* ZPMetaServer::RefreshLeader
\* ------------------------------------------------------------------------
\* restored: the outcome of info_store_->RestoreNodeAlive;
\* connected: the outcome of cli->Connect
\* InfoStore::RestoreNodeAlive: every UP node's heartbeat is stamped "now"
RestoreNodeAlive(nodes) ==
  [k \in DOMAIN nodes |->
     IF nodes[k].state = "UP" THEN [nodes[k] EXCEPT !.age = 0] ELSE nodes[k]]

\* RefreshLeader that keeps the leader's address in the joint when the
\* connect fails
RefreshLeaderJoint_KeepOnFail(restored, connected) ==
  LET l == GetLeader
      leader_cmd_port == l.port + kMetaPortShiftCmd
  IN
  IF ~l.res
       THEN /\ refresh_ret' = [leader |-> NoLeader, status |-> "Incomplete"]
            /\ UNCHANGED <<leader_joint, restore_calls, node_alive>>
       ELSE IF l.ip = leader_joint.ip /\ leader_cmd_port = leader_joint.port
       THEN /\ refresh_ret' = [leader |-> l.ip, status |-> "OK"]
            /\ UNCHANGED <<leader_joint, restore_calls, node_alive>>
       ELSE IF l.ip = local_ip /\ l.port = local_port
       THEN /\ leader_joint' = CleanLeader
            /\ restore_calls' = Min(restore_calls + 1, MaxRestore)
            /\ node_alive' =
                 IF restored THEN RestoreNodeAlive(node_alive) ELSE node_alive
            /\ refresh_ret' =
                 [leader |-> l.ip,
                  status |-> IF restored THEN "OK" ELSE "IOError"]
       ELSE /\ UNCHANGED <<restore_calls, node_alive>>
            /\ IF connected
                 THEN /\ leader_joint' =
                           [ip |-> l.ip, port |-> leader_cmd_port,
                            cli |-> IpPortString(l.ip, leader_cmd_port)]
                      /\ refresh_ret' = [leader |-> l.ip, status |-> "OK"]
                 ELSE /\ leader_joint' =
                           [ip |-> l.ip, port |-> leader_cmd_port,
                            cli |-> NoCli]
                      /\ refresh_ret' = [leader |-> l.ip, status |-> "IOError"]

\* what a RefreshLeader call does to the LeaderJoint and to the InfoStore's
\* heartbeats; restore_calls counts up to MaxRestore
RefreshLeaderJoint(restored, connected) ==
  LET l == GetLeader
      leader_cmd_port == l.port + kMetaPortShiftCmd
  IN
  IF ~l.res
       THEN \* No leader yet
            /\ refresh_ret' = [leader |-> NoLeader, status |-> "Incomplete"]
            /\ UNCHANGED <<leader_joint, restore_calls, node_alive>>
       ELSE IF l.ip = leader_joint.ip /\ leader_cmd_port = leader_joint.port
       THEN \* No change
            /\ refresh_ret' = [leader |-> l.ip, status |-> "OK"]
            /\ UNCHANGED <<leader_joint, restore_calls, node_alive>>
       ELSE IF l.ip = local_ip /\ l.port = local_port
       THEN \* I'm new leader: CleanLeader, RestoreNodeAlive
            /\ leader_joint' = CleanLeader
            /\ restore_calls' = Min(restore_calls + 1, MaxRestore)
            /\ node_alive' =
                 IF restored THEN RestoreNodeAlive(node_alive) ELSE node_alive
            /\ refresh_ret' =
                 [leader |-> l.ip,
                  status |-> IF restored THEN "OK" ELSE "IOError"]
       ELSE \* Connect to new leader
            /\ UNCHANGED <<restore_calls, node_alive>>
            /\ IF connected
                 THEN /\ leader_joint' =
                           [ip |-> l.ip, port |-> leader_cmd_port,
                            cli |-> IpPortString(l.ip, leader_cmd_port)]
                      /\ refresh_ret' = [leader |-> l.ip, status |-> "OK"]
                 ELSE /\ leader_joint' = CleanLeader
                      /\ refresh_ret' = [leader |-> l.ip, status |-> "IOError"]

RefreshLeader(restored, connected) ==
  /\ alive
  /\ UNCHANGED serverVars
  /\ UNCHANGED <<alive, floyd_leader, redirect_ret>>
  /\ UNCHANGED topoVars
  /\ RefreshLeaderJoint(restored, connected)

\* ------------------------------------------------------------------------
\* ZPMetaServer::RefreshLeader, step by step: leader_joint_.mutex
\* ------------------------------------------------------------------------
\* slash::MutexLock l(&(leader_joint_.mutex)) at line 399 is released when
\* the function returns.  The paths that make a blocking call are two
\* steps: up to the call, and from its return.
LockFrame ==
  /\ alive
  /\ UNCHANGED <<alive, floyd_leader, redirect_ret>>
  /\ UNCHANGED topoVars
  /\ UNCHANGED <<start_pc, should_exit, serving, loaded, timing, pull>>

\* the leader has changed: the mutex is taken, the joint is cleaned, and
\* RestoreNodeAlive or Connect is called
RefreshLeaderLock ==
  LET l == GetLeader
      leader_cmd_port == l.port + kMetaPortShiftCmd
  IN
  /\ LockFrame
  /\ joint_mutex = "free"
  /\ l.res
  /\ ~(l.ip = leader_joint.ip /\ leader_cmd_port = leader_joint.port)
  /\ joint_mutex' = "RefreshLeader"
  /\ UNCHANGED <<refresh_ret, restore_calls, node_alive>>
  /\ IF l.ip = local_ip /\ l.port = local_port
       THEN /\ leader_joint' = CleanLeader
            /\ refresh_io' = "RestoreNodeAlive"
       ELSE /\ leader_joint' =
                 [ip |-> l.ip, port |-> leader_cmd_port, cli |-> NewPbCli]
            /\ refresh_io' = "Connect"

\* the blocking call returns, RefreshLeader returns, the mutex is released
RefreshLeaderUnlock(restored, connected) ==
  /\ LockFrame
  /\ joint_mutex = "RefreshLeader"
  /\ joint_mutex' = "free"
  /\ refresh_io' = "none"
  /\ IF refresh_io = "RestoreNodeAlive"
       THEN /\ UNCHANGED leader_joint
            /\ restore_calls' = Min(restore_calls + 1, MaxRestore)
            /\ node_alive' =
                 IF restored THEN RestoreNodeAlive(node_alive) ELSE node_alive
            /\ refresh_ret' =
                 [leader |-> local_ip,
                  status |-> IF restored THEN "OK" ELSE "IOError"]
       ELSE /\ UNCHANGED <<restore_calls, node_alive>>
            /\ IF connected
                 THEN /\ leader_joint' =
                           [leader_joint EXCEPT
                              !.cli = IpPortString(leader_joint.ip,
                                                   leader_joint.port)]
                      /\ refresh_ret' =
                           [leader |-> leader_joint.ip, status |-> "OK"]
                 ELSE /\ leader_joint' = CleanLeader
                      /\ refresh_ret' =
                           [leader |-> leader_joint.ip, status |-> "IOError"]

\* the paths with no blocking call: no leader yet, no change
RefreshLeaderNoIO ==
  LET l == GetLeader
  IN
  /\ joint_mutex = "free"
  /\ \/ ~l.res
     \/ /\ l.ip = leader_joint.ip
        /\ l.port + kMetaPortShiftCmd = leader_joint.port
  /\ RefreshLeader(TRUE, TRUE)

\* ------------------------------------------------------------------------
\* ZPMetaServer::RedirectToLeader
\* ------------------------------------------------------------------------
\* RedirectToLeader without the test for a missing connection
RedirectToLeader_NoCliTest(send_ok, recv_ok) ==
  /\ alive
  /\ UNCHANGED serverVars
  /\ UNCHANGED node_alive
  /\ UNCHANGED <<alive, floyd_leader, leader_joint, refresh_ret,
                 restore_calls>>
  /\ UNCHANGED <<info_store, node_offsets, pending_log, applied,
                 condition_cron, migrate_register, next_req, ret>>
  /\ IF ~send_ok
       THEN redirect_ret' = [status |-> "IOError", sent_to |-> leader_joint.cli]
       ELSE IF ~recv_ok
       THEN redirect_ret' = [status |-> "Timeout", sent_to |-> leader_joint.cli]
       ELSE redirect_ret' = [status |-> "OK", sent_to |-> leader_joint.cli]

\* send_ok, recv_ok: the outcomes of cli->Send and cli->Recv
RedirectToLeader(send_ok, recv_ok) ==
  /\ alive
  /\ UNCHANGED serverVars
  /\ UNCHANGED node_alive
  /\ UNCHANGED <<alive, floyd_leader, leader_joint, refresh_ret,
                 restore_calls>>
  /\ UNCHANGED topoVars
  /\ IF leader_joint.cli = NoCli
       THEN redirect_ret' = [status |-> "Corruption", sent_to |-> "nothing"]
       ELSE IF ~send_ok
       THEN redirect_ret' = [status |-> "IOError", sent_to |-> leader_joint.cli]
       ELSE IF ~recv_ok
       THEN redirect_ret' = [status |-> "Timeout", sent_to |-> leader_joint.cli]
       ELSE redirect_ret' = [status |-> "OK", sent_to |-> leader_joint.cli]

\* ------------------------------------------------------------------------
\* InfoStore, UpdateThread, ConditionCron and MigrateRegister operations
\* ------------------------------------------------------------------------
\* the node an "ip:port" string names
NodeOf(ip_port) ==
  CHOOSE n \in Nodes : IpPortString(n.ip, n.port) = ip_port

\* the positions of node n in a replica list
IndexOf(replicas, n) == {i \in 1..Len(replicas) : replicas[i] = n}

Without(replicas, n) ==
  LET keep == {i \in 1..Len(replicas) : replicas[i] # n}
      F[i \in 0..Len(replicas)] ==
        IF i = 0 THEN << >>
        ELSE IF i \in keep THEN Append(F[i - 1], replicas[i]) ELSE F[i - 1]
  IN F[Len(replicas)]

\* InfoStore::GetPartitionMaster
GetPartitionMaster(table, partition) ==
  IF table = TableName /\ partition \in DOMAIN info_store.tables
       /\ info_store.tables[partition].replicas # << >>
    THEN [status |-> "OK",
          master |-> info_store.tables[partition].replicas[1]]
    ELSE [status |-> "NotFound", master |-> NodeA]

\* InfoStore::Apply of one task to the tables: the revision it produces,
\* the same tables when the task does not pass validation
ApplyTask(tables, task) ==
  IF task.table # TableName \/ task.partition \notin DOMAIN tables
    THEN tables
  ELSE
  LET part == tables[task.partition]
      reps == part.replicas
  IN CASE task.op = "SetStuck" ->
            [tables EXCEPT ![task.partition].state = "STUCK"]
       [] task.op = "SetActive" ->
            [tables EXCEPT ![task.partition].state = "ACTIVE"]
       [] task.op = "AddSlave" ->
            IF IndexOf(reps, NodeOf(task.ip_port)) # {}
              THEN tables
              ELSE [tables EXCEPT ![task.partition].replicas =
                      Append(reps, NodeOf(task.ip_port))]
       [] task.op = "RemoveSlave" ->
            IF IndexOf(reps, NodeOf(task.ip_port)) = {} \/ Len(reps) = 1
              THEN tables
              ELSE [tables EXCEPT ![task.partition].replicas =
                      Without(reps, NodeOf(task.ip_port))]
       [] task.op = "SetMaster" ->
            IF IndexOf(reps, NodeOf(task.ip_port)) \subseteq {1}
              THEN tables
              ELSE [tables EXCEPT
                      ![task.partition].replicas =
                         <<NodeOf(task.ip_port)>> \o
                           Without(reps, NodeOf(task.ip_port)),
                      ![task.partition].state = "ACTIVE"]
       [] OTHER -> tables

RECURSIVE ApplyBatch(_, _)
ApplyBatch(tables, batch) ==
  IF batch = << >> THEN tables
  ELSE ApplyBatch(ApplyTask(tables, Head(batch)), Tail(batch))

\* InfoStore::Apply of the UpNode and DownNode tasks of a batch to the
\* node states
RECURSIVE ApplyNodes(_, _)
ApplyNodes(nodes, batch) ==
  IF batch = << >> THEN nodes
  ELSE LET task == Head(batch)
           next ==
             IF task.op = "UpNode" /\ task.ip_port \in DOMAIN nodes
               THEN [nodes EXCEPT ![task.ip_port].state = "UP"]
             ELSE IF task.op = "DownNode" /\ task.ip_port \in DOMAIN nodes
               THEN [nodes EXCEPT ![task.ip_port].state = "DOWN"]
             ELSE nodes
       IN ApplyNodes(next, Tail(batch))

\* the key ConditionCron::AddCronTask is idempotent on
SameCronKey(t1, t2) ==
  /\ t1.op = t2.op
  /\ t1.ip_port = t2.ip_port
  /\ t1.table = t2.table
  /\ t1.partition = t2.partition

\* ConditionCron::AddCronTask: replaces a pending entry of the same key
AddCronTask(cron, condition, task) ==
  {e \in cron : ~SameCronKey(e.task, task)}
    \cup {[cond |-> condition, task |-> task]}

\* MigrateRegister::Init
RegisterInit(register, diffs) ==
  IF register # << >>
    THEN [status |-> "AlreadyExists", register |-> register]
    ELSE [status |-> "OK", register |-> diffs]

\* MigrateRegister::GetN: the next k items, which stay in the register
GetN(register, k, io_ok) ==
  IF ~io_ok THEN [status |-> "IOError", diffs |-> << >>]
  ELSE IF register = << >> THEN [status |-> "NotFound", diffs |-> << >>]
  ELSE [status |-> "OK", diffs |-> SubSeq(register, 1, Min(k, Len(register)))]

\* ZPMetaServer::GetSlaveOffset
GetSlaveOffset(table, partition, ip, port) ==
  LET key == NodeOffsetKey(table, partition, ip, port)
  IN IF key \in DOMAIN node_offsets
       THEN [found |-> TRUE, node_offset |-> node_offsets[key]]
       ELSE [found |-> FALSE, node_offset |-> NodeOffset(0, 0)]

\* OffsetCondition: right (the candidate) has caught up with left
ConditionHolds(cond) ==
  LET l == GetSlaveOffset(cond.table, cond.partition, cond.left.ip,
                          cond.left.port)
      r == GetSlaveOffset(cond.table, cond.partition, cond.right.ip,
                          cond.right.port)
  IN /\ l.found
     /\ r.found
     /\ \/ r.node_offset.filenum > l.node_offset.filenum
        \/ /\ r.node_offset.filenum = l.node_offset.filenum
           /\ r.node_offset.offset >= l.node_offset.offset
     /\ l.node_offset.offset - r.node_offset.offset <= kOffsetGapTolerance

\* ------------------------------------------------------------------------
\* ZPMetaServer::UpdateNodeOffset
\* ------------------------------------------------------------------------
RECURSIVE SetOffsets(_, _, _)
SetOffsets(offsets, node, pos) ==
  IF pos = << >> THEN offsets
  ELSE LET po == Head(pos)
           key == NodeOffsetKey(po.table_name, po.partition, node.ip,
                                node.port)
           set == [k \in DOMAIN offsets \cup {key} |->
                     IF k = key THEN NodeOffset(po.filenum, po.offset)
                     ELSE offsets[k]]
       IN SetOffsets(set, node, Tail(pos))

\* the offset lists a Ping may carry
PingOffsetInputs ==
  {<< >>} \cup
  {<< [table_name |-> TableName, partition |-> 0,
       filenum |-> o.filenum, offset |-> o.offset] >> : o \in OffsetInputs}

UpdateNodeOffset(ping) ==
  /\ alive
  /\ UNCHANGED serverVars
  /\ UNCHANGED node_alive
  /\ node_offsets' = SetOffsets(node_offsets, ping.node, ping.offset)
  /\ UNCHANGED <<alive, info_store, pending_log, applied, condition_cron,
                 migrate_register, next_req, ret>>
  /\ UNCHANGED leaderVars

\* ------------------------------------------------------------------------
\* ZPMetaServer::WaitSetMaster
\* ------------------------------------------------------------------------
\* WaitSetMaster that hands SetMaster to the UpdateThread at once, instead
\* of leaving it to the offset condition
WaitSetMaster_NoWait(node, table, partition) ==
  LET m == GetPartitionMaster(table, partition)
  IN
  /\ alive
  /\ UNCHANGED serverVars
  /\ UNCHANGED node_alive
  /\ UNCHANGED <<alive, info_store, node_offsets, applied, migrate_register>>
  /\ UNCHANGED <<floyd_leader, leader_joint, refresh_ret, restore_calls,
                 redirect_ret>>
  /\ IF m.status # "OK"
       THEN /\ ret' = [op |-> "WaitSetMaster", status |-> m.status]
            /\ UNCHANGED <<pending_log, condition_cron, next_req>>
       ELSE /\ Len(pending_log) + 1 < MaxTasks
            /\ pending_log' =
                 pending_log \o
                   << UpdateTask("SetStuck", "", table, partition, next_req),
                      UpdateTask("SetMaster",
                                 IpPortString(node.ip, node.port),
                                 table, partition, next_req) >>
            /\ condition_cron' = condition_cron
            /\ next_req' = next_req + 1
            /\ ret' = [op |-> "WaitSetMaster", status |-> "OK"]

WaitSetMaster(node, table, partition) ==
  LET m == GetPartitionMaster(table, partition)
  IN
  /\ alive
  /\ UNCHANGED serverVars
  /\ UNCHANGED node_alive
  /\ UNCHANGED <<alive, info_store, node_offsets, applied, migrate_register>>
  /\ UNCHANGED leaderVars
  /\ IF m.status # "OK"
       THEN \* Partition not exist
            /\ ret' = [op |-> "WaitSetMaster", status |-> m.status]
            /\ UNCHANGED <<pending_log, condition_cron, next_req>>
       ELSE /\ Len(pending_log) < MaxTasks
            \* Stuck partition
            /\ pending_log' =
                 Append(pending_log,
                        UpdateTask("SetStuck", "", table, partition, next_req))
            \* SetMaster when current node catched up with the master
            /\ condition_cron' =
                 AddCronTask(condition_cron,
                   OffsetCondition(table, partition, m.master, node),
                   UpdateTask("SetMaster", IpPortString(node.ip, node.port),
                              table, partition, next_req))
            /\ next_req' = next_req + 1
            /\ ret' = [op |-> "WaitSetMaster", status |-> "OK"]

\* ------------------------------------------------------------------------
\* ZPMetaServer::ProcessMigrate
\* ------------------------------------------------------------------------
\* one pass of the loop over the items GetN returned; st is what the loop
\* writes: the UpdateThread FIFO, the ConditionCron set, the request id
\* the loop body with SetStuck handed over before AddSlave
StageDiff_StuckFirst(diff, st) ==
  [log |-> st.log \o
       << UpdateTask("SetStuck", "", diff.table, diff.partition, st.req),
          UpdateTask("AddSlave", IpPortString(diff.right.ip, diff.right.port),
                     diff.table, diff.partition, st.req) >>,
   cron |-> AddCronTask(st.cron,
              OffsetCondition(diff.table, diff.partition, diff.left,
                              diff.right),
              UpdateTask("RemoveSlave",
                         IpPortString(diff.left.ip, diff.left.port),
                         diff.table, diff.partition, st.req)),
   req |-> st.req + 1]

StageDiff(diff, st) ==
  [log |-> st.log \o
       << \* Add Slave
          UpdateTask("AddSlave", IpPortString(diff.right.ip, diff.right.port),
                     diff.table, diff.partition, st.req),
          \* Stuck partition
          UpdateTask("SetStuck", "", diff.table, diff.partition, st.req) >>,
   \* Begin offset condition wait
   cron |-> AddCronTask(st.cron,
              OffsetCondition(diff.table, diff.partition, diff.left,
                              diff.right),
              UpdateTask("RemoveSlave",
                         IpPortString(diff.left.ip, diff.left.port),
                         diff.table, diff.partition, st.req)),
   req |-> st.req + 1]

RECURSIVE StageDiffs(_, _)
StageDiffs(diffs, st) ==
  IF diffs = << >> THEN st
  ELSE StageDiffs(Tail(diffs), StageDiff(Head(diffs), st))

\* ProcessMigrate that returns OK although it staged nothing
ProcessMigrateOn_AlwaysOK(register, io_ok, st) ==
  LET g == GetN(register, kMetaMigrateOnceCount, io_ok)
      staged == StageDiffs(g.diffs, st)
  IN IF g.status # "NotFound" /\ g.status # "OK"
       THEN [status |-> g.status, st |-> st]
     ELSE [status |-> "OK", st |-> staged]

\* the whole of ProcessMigrate on a register; io_ok: GetN's log read works
ProcessMigrateOn(register, io_ok, st) ==
  LET g == GetN(register, kMetaMigrateOnceCount, io_ok)
      staged == StageDiffs(g.diffs, st)
  IN IF g.status # "NotFound" /\ g.status # "OK"
       THEN [status |-> g.status, st |-> st]
     ELSE IF g.diffs = << >>
       THEN [status |-> "Incomplete", st |-> st]
     ELSE [status |-> "OK", st |-> staged]

Staging == [log |-> pending_log, cron |-> condition_cron, req |-> next_req]

\* ProcessMigrate that takes the items it stages out of the register
ProcessMigrate_Consuming(io_ok) ==
  LET r == ProcessMigrateOn(migrate_register, io_ok, Staging)
  IN
  /\ alive
  /\ UNCHANGED serverVars
  /\ UNCHANGED node_alive
  /\ Len(r.st.log) <= MaxTasks
  /\ pending_log' = r.st.log
  /\ condition_cron' = r.st.cron
  /\ next_req' = r.st.req
  /\ ret' = [op |-> "ProcessMigrate", status |-> r.status]
  /\ migrate_register' =
       SubSeq(migrate_register, (r.st.req - next_req) + 1,
              Len(migrate_register))
  /\ UNCHANGED <<alive, info_store, node_offsets, applied>>
  /\ UNCHANGED leaderVars

ProcessMigrate(io_ok) ==
  LET r == ProcessMigrateOn(migrate_register, io_ok, Staging)
  IN
  /\ alive
  /\ UNCHANGED serverVars
  /\ UNCHANGED node_alive
  /\ Len(r.st.log) <= MaxTasks
  /\ pending_log' = r.st.log
  /\ condition_cron' = r.st.cron
  /\ next_req' = r.st.req
  /\ ret' = [op |-> "ProcessMigrate", status |-> r.status]
  /\ UNCHANGED <<alive, info_store, node_offsets, applied, migrate_register>>
  /\ UNCHANGED leaderVars

\* ------------------------------------------------------------------------
\* ZPMetaServer::Migrate
\* ------------------------------------------------------------------------
\* do { s = ProcessMigrate(); } while (s.IsIncomplete() && retry-- > 0);
\* call: the number of this ProcessMigrate call; the GetN of call fail_at
\* fails
\* the loop with one retry more
RECURSIVE MigrateRetry_OneMore(_, _, _, _, _)
MigrateRetry_OneMore(register, st, retry, call, fail_at) ==
  LET r == ProcessMigrateOn(register, call # fail_at, st)
  IN IF r.status = "Incomplete" /\ retry >= 0
       THEN MigrateRetry_OneMore(register, r.st, retry - 1, call + 1, fail_at)
       ELSE [status |-> r.status, st |-> r.st, calls |-> call]

\* the result carries the number of ProcessMigrate calls made
RECURSIVE MigrateRetry(_, _, _, _, _)
MigrateRetry(register, st, retry, call, fail_at) ==
  LET r == ProcessMigrateOn(register, call # fail_at, st)
  IN IF r.status = "Incomplete" /\ retry > 0
       THEN MigrateRetry(register, r.st, retry - 1, call + 1, fail_at)
       ELSE [status |-> r.status, st |-> r.st, calls |-> call]

\* ndebug: the build compiles assert() out
\* Migrate from the assertion on: register the plan, then ProcessMigrate
MigrateRegistered(diffs, ndebug, fail_at) ==
  IF diffs = << >> /\ ~ndebug
    THEN \* assert(!diffs.empty()) aborts the process
         /\ alive' = FALSE
         /\ ret' = [op |-> "Migrate", status |-> "Abort"]
         /\ UNCHANGED <<pending_log, condition_cron, migrate_register,
                        next_req>>
    ELSE LET init == RegisterInit(migrate_register, diffs)
             r == MigrateRetry(init.register, Staging,
                               kInitMigrateRetryNum, 1, fail_at)
         IN IF init.status # "OK"
              THEN /\ ret' = [op |-> "Migrate", status |-> init.status]
                   /\ UNCHANGED <<alive, pending_log, condition_cron,
                                  migrate_register, next_req>>
              ELSE /\ Len(r.st.log) <= MaxTasks
                   /\ migrate_register' = init.register
                   /\ pending_log' = r.st.log
                   /\ condition_cron' = r.st.cron
                   /\ next_req' = r.st.req
                   /\ ret' = [op |-> "Migrate", status |-> r.status,
                              calls |-> r.calls]
                   /\ alive' = alive

\* Migrate without the epoch test
Migrate_NoEpochTest(epoch, diffs, ndebug, fail_at) ==
  /\ alive
  /\ UNCHANGED serverVars
  /\ UNCHANGED node_alive
  /\ UNCHANGED <<info_store, node_offsets, applied>>
  /\ UNCHANGED leaderVars
  /\ MigrateRegistered(diffs, ndebug, fail_at)

Migrate(epoch, diffs, ndebug, fail_at) ==
  /\ alive
  /\ UNCHANGED serverVars
  /\ UNCHANGED node_alive
  /\ UNCHANGED <<info_store, node_offsets, applied>>
  /\ UNCHANGED leaderVars
  /\ IF epoch # info_store.epoch
       THEN \* Expired epoch
            /\ ret' = [op |-> "Migrate", status |-> "InvalidArgument"]
            /\ UNCHANGED <<alive, pending_log, condition_cron,
                           migrate_register, next_req>>
       ELSE MigrateRegistered(diffs, ndebug, fail_at)

\* ------------------------------------------------------------------------
\* MigrateRegister::Cancel, by the CancelMigrate command
\* ------------------------------------------------------------------------
\* cancel_cron: the best-effort cancel of the migration's cron entries worked
CancelMigrate(cancel_cron) ==
  /\ alive
  /\ UNCHANGED serverVars
  /\ UNCHANGED node_alive
  /\ migrate_register' = << >>
  /\ condition_cron' =
       IF cancel_cron
         THEN {e \in condition_cron : e.task.op # "RemoveSlave"}
         ELSE condition_cron
  /\ ret' = [op |-> "CancelMigrate", status |-> "OK"]
  /\ UNCHANGED <<alive, info_store, node_offsets, pending_log, applied,
                 next_req>>
  /\ UNCHANGED leaderVars

\* ------------------------------------------------------------------------
\* ConditionCron tick, for one pending entry
\* ------------------------------------------------------------------------
\* the condition holds: the task goes to the UpdateThread, the entry goes
CronFire(e) ==
  /\ alive
  /\ UNCHANGED serverVars
  /\ UNCHANGED node_alive
  /\ e \in condition_cron
  /\ ConditionHolds(e.cond)
  /\ Len(pending_log) < MaxTasks
  /\ pending_log' = Append(pending_log, e.task)
  /\ condition_cron' = condition_cron \ {e}
  /\ UNCHANGED <<alive, info_store, node_offsets, applied, migrate_register,
                 next_req, ret>>
  /\ UNCHANGED leaderVars

\* the entry has waited longer than kConditionTimeout: it is cancelled and
\* a stuck partition is set active again
CronTimeout(e) ==
  /\ alive
  /\ UNCHANGED serverVars
  /\ UNCHANGED node_alive
  /\ e \in condition_cron
  /\ ~ConditionHolds(e.cond)
  /\ Len(pending_log) < MaxTasks
  /\ condition_cron' = condition_cron \ {e}
  /\ pending_log' =
       IF /\ e.cond.partition \in DOMAIN info_store.tables
          /\ info_store.tables[e.cond.partition].state = "STUCK"
         THEN Append(pending_log,
                     UpdateTask("SetActive", "", e.cond.table,
                                e.cond.partition, e.task.req))
         ELSE pending_log
  /\ UNCHANGED <<alive, info_store, node_offsets, applied, migrate_register,
                 next_req, ret>>
  /\ UNCHANGED leaderVars

\* ------------------------------------------------------------------------
\* UpdateThread worker: applies the next k pending tasks as one revision
\* ------------------------------------------------------------------------
UpdateWorker(k) ==
  LET batch == SubSeq(pending_log, applied + 1, applied + k)
      tables == ApplyBatch(info_store.tables, batch)
      nodes == ApplyNodes(node_alive, batch)
  IN
  /\ alive
  /\ UNCHANGED serverVars
  /\ applied + k <= Len(pending_log)
  /\ applied' = applied + k
  /\ node_alive' = nodes
  /\ info_store' =
       IF tables = info_store.tables /\ nodes = node_alive THEN info_store
       ELSE [epoch |-> info_store.epoch + 1, tables |-> tables]
  /\ UNCHANGED <<alive, node_offsets, pending_log, condition_cron,
                 migrate_register, next_req, ret>>
  /\ UNCHANGED leaderVars

\* ------------------------------------------------------------------------
\* ZPMetaServer::GetMetaInfoByTable, ZPMetaServer::GetMetaInfoByNode
\* ------------------------------------------------------------------------
\* InfoStore::GetTableMeta
GetTableMeta(table) ==
  IF table = TableName
    THEN [status |-> "OK", meta |-> info_store.tables]
    ELSE [status |-> "NotFound", meta |-> << >>]

\* InfoStore::GetTablesForNode: the tables the node is a replica in
GetTablesForNode(ip_port) ==
  IF \E p \in DOMAIN info_store.tables :
       \E i \in 1..Len(info_store.tables[p].replicas) :
         IpPortString(info_store.tables[p].replicas[i].ip,
                      info_store.tables[p].replicas[i].port) = ip_port
    THEN [status |-> "OK", tables |-> <<TableName>>]
    ELSE [status |-> "NotFound", tables |-> << >>]

\* the calls of a Pull handler take no lock between them: each call is a
\* step of its own, and the UpdateThread may publish in between
PullFrame ==
  /\ alive
  /\ UNCHANGED <<alive, node_alive, start_pc, should_exit, serving, loaded,
                 timing, joint_mutex, refresh_io>>
  /\ UNCHANGED leaderVars
  /\ UNCHANGED topoVars

\* GetMetaInfoByTable: ms_info->set_version(info_store_->epoch())
GetMetaInfoByTable(table) ==
  /\ PullFrame
  /\ pull.pc \in {"idle", "done"}
  /\ pull' = [pc |-> "GetTableMeta", node |-> "",
              version |-> info_store.epoch, todo |-> <<table>>,
              info |-> << >>, status |-> "unset"]

\* GetMetaInfoByNode: ms_info->set_version(info_store_->epoch())
GetMetaInfoByNode(ip_port) ==
  /\ PullFrame
  /\ pull.pc \in {"idle", "done"}
  /\ pull' = [pc |-> "GetTablesForNode", node |-> ip_port,
              version |-> info_store.epoch, todo |-> << >>,
              info |-> << >>, status |-> "unset"]

\* GetMetaInfoByNode: info_store_->GetTablesForNode(ip_port, &tables)
PullGetTablesForNode ==
  LET r == GetTablesForNode(pull.node)
  IN
  /\ PullFrame
  /\ pull.pc = "GetTablesForNode"
  /\ pull' =
       IF r.status # "OK" /\ r.status # "NotFound"
         THEN [pull EXCEPT !.pc = "done", !.status = r.status]
       ELSE IF r.tables = << >>
         THEN [pull EXCEPT !.pc = "done", !.status = "OK"]
       ELSE [pull EXCEPT !.pc = "GetTableMeta", !.todo = r.tables]

\* info_store_->GetTableMeta for the next table of the response; rev is the
\* revision the table is read from
PullGetTableMeta ==
  LET g == GetTableMeta(Head(pull.todo))
  IN
  /\ PullFrame
  /\ pull.pc = "GetTableMeta"
  /\ pull' =
       IF g.status # "OK"
         THEN [pull EXCEPT !.pc = "done", !.status = g.status]
       ELSE [pull EXCEPT
               !.info = Append(pull.info,
                               [table |-> Head(pull.todo), meta |-> g.meta,
                                rev |-> info_store.epoch]),
               !.todo = Tail(pull.todo),
               !.pc = IF Tail(pull.todo) = << >> THEN "done"
                      ELSE "GetTableMeta",
               !.status = IF Tail(pull.todo) = << >> THEN "OK" ELSE "unset"]

\* ------------------------------------------------------------------------
\* Node liveness: UpdateNodeAlive, CheckNodeAlive
\* ------------------------------------------------------------------------
\* the "ip:port" of the storage nodes, in the order of a std::set
NodeOrder ==
  << IpPortString(NodeA.ip, NodeA.port), IpPortString(NodeB.ip, NodeB.port),
     IpPortString(NodeC.ip, NodeC.port) >>

\* InfoStore::FetchExpiredNode: the UP nodes whose heartbeat age exceeds
\* the TTL
FetchExpiredNode(nodes) ==
  {k \in DOMAIN nodes :
     nodes[k].state = "UP" /\ nodes[k].age > kNodeAliveTTL}

\* CheckNodeAlive: one DownNode task for each expired node
DownNodeTasks(expired) ==
  LET sel == SelectSeq(NodeOrder, LAMBDA k : k \in expired)
  IN [i \in 1..Len(sel) |-> UpdateTask("DownNode", sel[i], "", 0, 0)]

\* ZPMetaServer::UpdateNodeAlive, on a Ping of the node: the heartbeat is
\* stamped; a node that was DOWN gets an UpNode task
UpdateNodeAlive(ip_port) ==
  /\ alive
  /\ node_alive' = [node_alive EXCEPT ![ip_port].age = 0]
  /\ IF node_alive[ip_port].state = "DOWN"
       THEN /\ Len(pending_log) < MaxTasks
            /\ pending_log' =
                 Append(pending_log, UpdateTask("UpNode", ip_port, "", 0, 0))
       ELSE pending_log' = pending_log
  /\ UNCHANGED <<alive, info_store, node_offsets, applied, condition_cron,
                 migrate_register, next_req, ret>>
  /\ UNCHANGED leaderVars
  /\ UNCHANGED serverVars

\* the clock advances by one step: every heartbeat is one step older
\* (ages above the TTL are not told apart)
TimePasses ==
  /\ alive
  /\ node_alive' =
       [k \in DOMAIN node_alive |->
          [node_alive[k] EXCEPT
             !.age = Min(node_alive[k].age + 1, kNodeAliveTTL + 1)]]
  /\ node_alive' # node_alive
  /\ UNCHANGED <<alive>>
  /\ UNCHANGED topoVars
  /\ UNCHANGED leaderVars
  /\ UNCHANGED serverVars

\* ------------------------------------------------------------------------
\* ZPMetaServer::DoTimingTask
\* ------------------------------------------------------------------------
\* RefreshLeader; InfoStore.Refresh unless IsLeader(), which reloads what
\* the log holds; CheckNodeAlive
DoTimingTask(restored, connected) ==
  LET down == DownNodeTasks(FetchExpiredNode(node_alive'))
  IN
  /\ alive
  /\ start_pc = "DoTimingTask"
  /\ ~should_exit
  \* Refresh Leader joint
  /\ RefreshLeaderJoint(restored, connected)
  \* Refresh info_store
  /\ timing' = [leader |-> refresh_ret'.leader, refreshed |-> ~IsLeader']
  \* Check alive
  /\ Len(pending_log) + Len(down) <= MaxTasks
  /\ pending_log' = pending_log \o down
  /\ start_pc' = "sleep"
  /\ UNCHANGED <<alive, floyd_leader, redirect_ret, info_store, node_offsets,
                 applied, condition_cron, migrate_register, next_req, ret>>
  /\ UNCHANGED <<should_exit, serving, loaded, joint_mutex, refresh_io, pull>>

\* ------------------------------------------------------------------------
\* ZPMetaServer::Start
\* ------------------------------------------------------------------------
StartFrame ==
  /\ alive
  /\ UNCHANGED <<alive, floyd_leader, redirect_ret, timing, joint_mutex,
                 refresh_io, pull, should_exit>>
  /\ UNCHANGED topoVars

\* while (!should_exit_ && !s.ok()) { sleep(1); s = info_store_->Refresh(); }
\* refresh_ok: the outcome of this Refresh
StartRefresh(refresh_ok) ==
  /\ StartFrame
  /\ start_pc = "Refresh"
  /\ UNCHANGED <<leader_joint, refresh_ret, restore_calls, node_alive,
                 serving>>
  /\ IF ~should_exit /\ ~loaded
       THEN /\ loaded' = refresh_ok
            /\ start_pc' = "Refresh"
       ELSE /\ loaded' = loaded
            /\ start_pc' = "RefreshLeader"

\* s = RefreshLeader(); if (!s.ok()) return;
StartRefreshLeader(restored, connected) ==
  /\ StartFrame
  /\ start_pc = "RefreshLeader"
  /\ RefreshLeaderJoint(restored, connected)
  /\ start_pc' = IF refresh_ret'.status = "OK" THEN "StartThread"
                 ELSE "returned"
  /\ UNCHANGED <<serving, loaded>>

\* the start of the dispatcher without the test of should_exit_
StartThread_NoExitTest(thread_ok) ==
  /\ StartFrame
  /\ start_pc = "StartThread"
  /\ UNCHANGED <<leader_joint, refresh_ret, restore_calls, node_alive,
                 loaded>>
  /\ IF ~thread_ok
       THEN /\ start_pc' = "returned"
            /\ serving' = serving
       ELSE /\ start_pc' = "DoTimingTask"
            /\ serving' = TRUE

\* if (should_exit_) return; server_thread_->StartThread()
\* thread_ok: StartThread returns kSuccess
StartThread(thread_ok) ==
  /\ StartFrame
  /\ start_pc = "StartThread"
  /\ UNCHANGED <<leader_joint, refresh_ret, restore_calls, node_alive,
                 loaded>>
  /\ IF should_exit \/ ~thread_ok
       THEN /\ start_pc' = "returned"
            /\ serving' = serving
       ELSE /\ start_pc' = "DoTimingTask"
            /\ serving' = TRUE

\* while (!should_exit_ && sleep_count-- > 0) usleep(...): the sleeps are
\* over, or should_exit_ was seen at a sleep boundary
StartSleep ==
  /\ StartFrame
  /\ start_pc = "sleep"
  /\ start_pc' = "DoTimingTask"
  /\ UNCHANGED <<leader_joint, refresh_ret, restore_calls, node_alive,
                 serving, loaded>>

\* while (!should_exit_) is left: Start returns
StartReturn ==
  /\ StartFrame
  /\ start_pc = "DoTimingTask"
  /\ should_exit
  /\ start_pc' = "returned"
  /\ UNCHANGED <<leader_joint, refresh_ret, restore_calls, node_alive,
                 serving, loaded>>

\* ZPMetaServer::Stop: should_exit_ = true
Stop ==
  /\ alive
  /\ ~should_exit
  /\ should_exit' = TRUE
  /\ UNCHANGED <<alive, node_alive, start_pc, serving, loaded, timing,
                 joint_mutex, refresh_io, pull>>
  /\ UNCHANGED topoVars
  /\ UNCHANGED leaderVars

\* ------------------------------------------------------------------------
\* Next-state relations
\* ------------------------------------------------------------------------
\* The LeaderJoint operations leave the topology state alone and the
\* topology operations leave the LeaderJoint alone (ZPMetaServer gives
\* neither a way to the other), and the SetMaster requests and the
\* migrations meet only in the collaborators below.  Each family is
\* explored by a specification of its own, and so are the Pull handlers,
\* Start with its cron loop, and RefreshLeader taken step by step with its
\* mutex; Spec is their union.

\* the replicas of the partition report their offsets
Ping ==
  \E n \in Nodes, pos \in PingOffsetInputs :
    /\ \A i \in 1..Len(pos) :
         /\ pos[i].partition \in DOMAIN info_store.tables
         /\ IndexOf(info_store.tables[pos[i].partition].replicas, n) # {}
    /\ UpdateNodeOffset([node |-> n, offset |-> pos])
ConditionCronFire == \E e \in condition_cron : CronFire(e)
ConditionCronTimeout == \E e \in condition_cron : CronTimeout(e)
UpdateThread == \E k \in 1..MaxTasks : UpdateWorker(k)

RefreshLeaderTick ==
  \E restored, connected \in BOOLEAN : RefreshLeader(restored, connected)
Redirect ==
  \E send_ok, recv_ok \in BOOLEAN : RedirectToLeader(send_ok, recv_ok)
SetMasterRequest ==
  \E n \in Nodes, p \in PartitionInputs : WaitSetMaster(n, TableName, p)
\* a Migrate request: its epoch is the current one, or one below or above
\* it; the build and the GetN failure matter only where the code reads them
MigrateRequest ==
  \E epoch \in {info_store.epoch - 1, info_store.epoch, info_store.epoch + 1},
     diffs \in DiffsInputs :
    \E ndebug \in (IF diffs = << >> THEN BOOLEAN ELSE {TRUE}),
       fail_at \in 0..(IF diffs = << >> THEN kInitMigrateRetryNum + 1 ELSE 1) :
      Migrate(epoch, diffs, ndebug, fail_at)
ProcessMigrateSweep == \E io_ok \in BOOLEAN : ProcessMigrate(io_ok)
CancelMigrateRequest == \E cancel_cron \in BOOLEAN : CancelMigrate(cancel_cron)

\* the LeaderJoint and the replicated log
NextLeader ==
  \/ LeaderElection
  \/ RefreshLeaderTick
  \/ Redirect

\* SetMaster requests
NextSetMaster ==
  \/ SetMasterRequest
  \/ Ping
  \/ ConditionCronFire
  \/ ConditionCronTimeout
  \/ UpdateThread

\* migrations
NextMigrate ==
  \/ MigrateRequest
  \/ ProcessMigrateSweep
  \/ CancelMigrateRequest
  \/ Ping
  \/ ConditionCronFire
  \/ ConditionCronTimeout
  \/ UpdateThread

\* the staging of migrations alone: no Ping, no ConditionCron tick
NextStaging ==
  \/ MigrateRequest
  \/ ProcessMigrateSweep
  \/ CancelMigrateRequest
  \/ UpdateThread

\* a leader with a pending SetMaster request loses the leadership
NextFailover ==
  \/ LeaderElection
  \/ RefreshLeaderTick
  \/ WaitSetMaster(NodeB, TableName, 0)
  \/ Ping
  \/ ConditionCronFire

\* Pulls while SetMaster requests produce revisions
PullByTable == \E table \in TableInputs : GetMetaInfoByTable(table)
PullByNode ==
  \E n \in {NodeA, NodeC} : GetMetaInfoByNode(IpPortString(n.ip, n.port))
NextPull ==
  \/ PullByTable
  \/ PullByNode
  \/ PullGetTablesForNode
  \/ PullGetTableMeta
  \/ SetMasterRequest
  \/ UpdateThread

\* RefreshLeader and RedirectToLeader on leader_joint_.mutex
RefreshLeaderReturn ==
  \E restored, connected \in BOOLEAN :
    RefreshLeaderUnlock(restored, connected)
\* slash::MutexLock l(&(leader_joint_.mutex)) of RedirectToLeader
RedirectLocked == joint_mutex = "free" /\ Redirect
NextMutex ==
  \/ LeaderElection
  \/ RefreshLeaderLock
  \/ RefreshLeaderReturn
  \/ RefreshLeaderNoIO
  \/ RedirectLocked

\* Start, its cron loop and shutdown
StartPoll == \E refresh_ok \in BOOLEAN : StartRefresh(refresh_ok)
StartLeader ==
  \E restored, connected \in BOOLEAN : StartRefreshLeader(restored, connected)
StartServer == \E thread_ok \in BOOLEAN : StartThread(thread_ok)
TimingTask ==
  \E restored, connected \in BOOLEAN : DoTimingTask(restored, connected)
\* the thread that runs Start
StartStep ==
  \/ StartPoll
  \/ StartLeader
  \/ StartServer
  \/ TimingTask
  \/ StartSleep
  \/ StartReturn
\* node b keeps sending Pings; node a is silent
Heartbeat == UpdateNodeAlive(IpPortString(NodeB.ip, NodeB.port))
NextStart ==
  \/ StartPoll
  \/ StartLeader
  \/ StartServer
  \/ TimingTask
  \/ StartSleep
  \/ StartReturn
  \/ Stop
  \/ LeaderElection

\* the cron loop of a meta node that stays the leader, while time passes
NextStableLeader ==
  \/ TimingTask
  \/ StartSleep
  \/ Heartbeat
  \/ TimePasses
  \/ UpdateThread

Next ==
  \/ NextLeader
  \/ NextSetMaster
  \/ NextMigrate
  \/ NextPull
  \/ NextStart
  \/ NextStableLeader
  \/ NextMutex

Spec == Init /\ [][Next]_vars
SpecLeader == Init /\ [][NextLeader]_vars
SpecSetMaster == Init /\ [][NextSetMaster]_vars
SpecMigrate == Init /\ [][NextMigrate]_vars
SpecStaging == Init /\ [][NextStaging]_vars
SpecFailover == Init /\ [][NextFailover]_vars
SpecPull == Init /\ [][NextPull]_vars
SpecMutex == Init /\ [][NextMutex]_vars
\* the cron keeps calling RefreshLeader and a Connect succeeds in the end
SpecReconnect ==
  Init /\ [][NextLeader]_vars
    /\ WF_vars(\E restored \in BOOLEAN : RefreshLeader(restored, TRUE))
\* the thread that runs Start keeps running
SpecStart == Init /\ [][NextStart]_vars /\ WF_vars(StartStep)
\* the cron loop keeps ticking
SpecStableLeader ==
  InitStableLeader /\ [][NextStableLeader]_vars
    /\ WF_vars(TimingTask \/ StartSleep)

\* ------------------------------------------------------------------------
\* Claims
\* ------------------------------------------------------------------------
\* the tasks a step has handed to the UpdateThread
NewTasks == SubSeq(pending_log', Len(pending_log) + 1, Len(pending_log'))

\* C1: a Migrate whose epoch is not the InfoStore's current epoch returns
\* InvalidArgument and changes neither the MigrateRegister, nor the
\* UpdateThread queue, nor the ConditionCron set.
C1_StaleEpochRejected ==
  [][\A epoch \in {info_store.epoch - 1, info_store.epoch + 1},
        diffs \in DiffsInputs :
       Migrate(epoch, diffs, TRUE, 0) =>
         /\ ret'.status = "InvalidArgument"
         /\ UNCHANGED <<migrate_register, pending_log, applied,
                        condition_cron>>]_vars

\* a Migrate with an expired epoch has returned, in a state where a plan is
\* registered and staged
C1_Witness ==
  /\ ret = [op |-> "Migrate", status |-> "InvalidArgument"]
  /\ info_store.epoch > 0
  /\ migrate_register # << >>
  /\ condition_cron # {}

\* C2: a Migrate with the current epoch and no diffs returns InvalidArgument
\* and changes neither the MigrateRegister, nor the UpdateThread queue, nor
\* the ConditionCron set.
C2_EmptyDiffsRejected ==
  [][\A ndebug \in BOOLEAN, fail_at \in 0..(kInitMigrateRetryNum + 1) :
       Migrate(info_store.epoch, << >>, ndebug, fail_at) =>
         /\ ret'.status = "InvalidArgument"
         /\ UNCHANGED <<migrate_register, pending_log, condition_cron>>]_vars

\* the LeaderJoint records another meta node and holds a connection to it
JointIsFollower ==
  /\ leader_joint.ip \in MetaIps \ {local_ip}
  /\ leader_joint.cli # NoCli

\* the LeaderJoint is in none of the follower states: no RefreshLeader has
\* found a leader yet, or the last one found the local node to be the
\* leader, or failed (its connect did), or the joint records no leader
JointIsNotFollower ==
  \/ refresh_ret.leader \in {"unset", local_ip}
  \/ refresh_ret.status = "IOError"
  \/ leader_joint.ip = ""

\* C3: RedirectToLeader sends the request only when the LeaderJoint is a
\* follower with a connection, and then to the recorded leader's command
\* port; in every other state of the joint (no leader, the local node is
\* the leader, the last connect failed) it returns Corruption and sends
\* nothing.
C3_RedirectOnlyAsFollower ==
  [][\A send_ok, recv_ok \in BOOLEAN :
       RedirectToLeader(send_ok, recv_ok) =>
         /\ redirect_ret'.sent_to # "nothing" =>
              /\ JointIsFollower
              /\ redirect_ret'.sent_to =
                   IpPortString(leader_joint.ip,
                                local_port + kMetaPortShiftCmd)
         /\ JointIsNotFollower =>
              /\ redirect_ret'.status = "Corruption"
              /\ redirect_ret'.sent_to = "nothing"]_vars

\* a redirect was refused on a node the log had reported as the leader
C3_Witness ==
  /\ refresh_ret = [leader |-> local_ip, status |-> "OK"]
  /\ redirect_ret = [status |-> "Corruption", sent_to |-> "nothing"]

\* C4: RestoreNodeAlive is called when RefreshLeader first finds the local
\* node to be the leader, and not again by a later RefreshLeader for which
\* the log still reports the local node.
C4_RestoreOnlyOnEntry ==
  [][\A restored, connected \in BOOLEAN :
       ( /\ refresh_ret = [leader |-> local_ip, status |-> "OK"]
         /\ floyd_leader = local_ip
         /\ RefreshLeader(restored, connected) )
       => restore_calls' = restore_calls]_vars

\* C5: after a RefreshLeader to which the log reported no leader, the
\* LeaderJoint records no leader and holds no redirect connection.
C5_NoLeaderDropsConnection ==
  refresh_ret.leader = NoLeader =>
    /\ leader_joint.cli = NoCli
    /\ leader_joint.ip = ""

\* C6: when RefreshLeader, after having found the local node to be the
\* leader, finds another node to be the leader, every pending ConditionCron
\* entry and every NodeOffsets entry is discarded.
C6_LeaderLossDropsCron ==
  [][\A restored, connected \in BOOLEAN :
       ( /\ refresh_ret = [leader |-> local_ip, status |-> "OK"]
         /\ floyd_leader \in MetaIps \ {local_ip}
         /\ RefreshLeader(restored, connected) )
       => /\ condition_cron' = {}
          /\ node_offsets' = << >>]_vars

\* every SetMaster task in the UpdateThread FIFO comes after the SetStuck
\* task of its request
SetStuckFirst ==
  \A j \in 1..Len(pending_log) :
    pending_log[j].op = "SetMaster" =>
      \E i \in 1..(j - 1) :
        pending_log[i] =
          UpdateTask("SetStuck", "", pending_log[j].table,
                     pending_log[j].partition, pending_log[j].req)

\* C7: WaitSetMaster on an existing partition hands SetStuck to the
\* UpdateThread at once and registers a ConditionCron entry with the
\* partition's current master as reference and the node as candidate; a
\* SetMaster task is handed over only by such an entry firing, so never
\* before the SetStuck of its request.
C7_SetMasterGated ==
  [][/\ \A n \in Nodes, p \in Partitions :
          WaitSetMaster(n, TableName, p) =>
            /\ NewTasks = << UpdateTask("SetStuck", "", TableName, p,
                                        next_req) >>
            /\ [cond |-> OffsetCondition(TableName, p,
                           info_store.tables[p].replicas[1], n),
                task |-> UpdateTask("SetMaster", IpPortString(n.ip, n.port),
                                    TableName, p, next_req)]
                 \in condition_cron'
     /\ \A i \in 1..Len(NewTasks) :
          NewTasks[i].op = "SetMaster" =>
            \E e \in condition_cron :
              /\ e.task = NewTasks[i]
              /\ ConditionHolds(e.cond)
              /\ e \notin condition_cron'
     /\ SetStuckFirst']_vars

\* a SetMaster task has reached the UpdateThread
C7_Witness ==
  \E j \in 1..Len(pending_log) : pending_log[j].op = "SetMaster"

\* C8: WaitSetMaster for a node that is not a slave of the partition (its
\* master, or no replica of it) returns InvalidArgument, hands no task to
\* the UpdateThread and registers no ConditionCron entry.
C8_NonSlaveRejected ==
  [][\A n \in Nodes, p \in Partitions :
       ( /\ IndexOf(info_store.tables[p].replicas, n) \subseteq {1}
         /\ WaitSetMaster(n, TableName, p) )
       => /\ ret'.status = "InvalidArgument"
          /\ UNCHANGED <<pending_log, condition_cron>>]_vars

\* every staged migration item has its AddSlave and then its SetStuck in
\* the UpdateThread FIFO, before its RemoveSlave if that is there
StagedInOrder ==
  /\ \A e \in condition_cron :
       e.task.op = "RemoveSlave" =>
         /\ e.task.ip_port = IpPortString(e.cond.left.ip, e.cond.left.port)
         /\ \E i \in 1..(Len(pending_log) - 1) :
              /\ pending_log[i] =
                   UpdateTask("AddSlave",
                              IpPortString(e.cond.right.ip, e.cond.right.port),
                              e.cond.table, e.cond.partition, e.task.req)
              /\ pending_log[i + 1] =
                   UpdateTask("SetStuck", "", e.cond.table, e.cond.partition,
                              e.task.req)
  /\ \A j \in 1..Len(pending_log) :
       pending_log[j].op = "RemoveSlave" =>
         \E i \in 1..(j - 2) :
           /\ pending_log[i].op = "AddSlave"
           /\ pending_log[i].req = pending_log[j].req
           /\ pending_log[i + 1] =
                UpdateTask("SetStuck", "", pending_log[j].table,
                           pending_log[j].partition, pending_log[j].req)

\* C9: for every migration item ProcessMigrate stages, AddSlave(right) and
\* then SetStuck are in the UpdateThread FIFO when the ConditionCron entry
\* (reference left, candidate right) is registered, so RemoveSlave(left)
\* never comes before them; one call stages at most kMetaMigrateOnceCount
\* items.
C9_MigrateItemOrder ==
  [][/\ StagedInOrder'
     /\ next_req' - next_req <= kMetaMigrateOnceCount
     /\ \A e \in condition_cron' \ condition_cron :
          e.task.req \in next_req..(next_req' - 1)]_vars

\* the RemoveSlave of a staged item has reached the UpdateThread
C9_Witness ==
  \E j \in 1..Len(pending_log) : pending_log[j].op = "RemoveSlave"

\* the items of the MigrateRegister
RegisterItems == {migrate_register[i] : i \in 1..Len(migrate_register)}

\* C10: when the offset condition of a staged migration item fires,
\* RemoveSlave(left) and SetActive are handed to the UpdateThread and the
\* item leaves the MigrateRegister.
C10_FireSetsActiveAndAcks ==
  [][\A e \in condition_cron :
       (e.task.op = "RemoveSlave" /\ CronFire(e)) =>
         /\ \E i \in 1..Len(NewTasks) : NewTasks[i] = e.task
         /\ \E i \in 1..Len(NewTasks) :
              /\ NewTasks[i].op = "SetActive"
              /\ NewTasks[i].table = e.cond.table
              /\ NewTasks[i].partition = e.cond.partition
         /\ RelationCmdUnit(e.cond.table, e.cond.partition, e.cond.left,
                            e.cond.right) \notin RegisterItems']_vars

\* C11: ProcessMigrate returns Incomplete exactly when it staged no item
\* (an empty register, whose GetN reports NotFound, included) and OK when
\* it staged at least one; a GetN failure other than NotFound is returned
\* as it is, with no task handed to the UpdateThread and no ConditionCron
\* entry registered.
C11_ProcessMigrateStatus ==
  [][\A io_ok \in BOOLEAN :
       ProcessMigrate(io_ok) =>
         IF ~io_ok
           THEN /\ ret'.status = "IOError"
                /\ UNCHANGED <<pending_log, condition_cron>>
           ELSE /\ ret'.status \in {"Incomplete", "OK"}
                /\ ret'.status = "Incomplete" <=>
                     (NewTasks = << >> /\ condition_cron' = condition_cron)
                /\ ret'.status = "OK" <=> NewTasks # << >>
                /\ migrate_register = << >> => ret'.status = "Incomplete"]_vars

\* a ProcessMigrate on an empty register has returned Incomplete after an
\* earlier plan was staged
C11_Witness ==
  /\ ret = [op |-> "ProcessMigrate", status |-> "Incomplete"]
  /\ migrate_register = << >>
  /\ pending_log # << >>

\* C12: ProcessMigrate leaves the MigrateRegister as it is: it stages the
\* next items GetN reads and does not remove them, so a second
\* ProcessMigrate stages the same items again; a step that takes items out
\* of the register is a Cancel.
C12_ProcessMigrateKeepsRegister ==
  [][/\ \A io_ok \in BOOLEAN :
          ProcessMigrate(io_ok) =>
            /\ UNCHANGED migrate_register
            /\ io_ok =>
                 LET n == Min(kMetaMigrateOnceCount, Len(migrate_register))
                 IN /\ Len(NewTasks) = 2 * n
                    /\ \A i \in 1..n :
                         NewTasks[2 * i - 1] =
                           UpdateTask("AddSlave",
                             IpPortString(migrate_register[i].right.ip,
                                          migrate_register[i].right.port),
                             migrate_register[i].table,
                             migrate_register[i].partition, next_req + i - 1)
     /\ (migrate_register # << >> /\ migrate_register' # migrate_register)
          => \E cancel_cron \in BOOLEAN : CancelMigrate(cancel_cron)]_vars

\* a ProcessMigrate has staged again an item an earlier call had staged
C12_Witness ==
  /\ ret = [op |-> "ProcessMigrate", status |-> "OK"]
  /\ migrate_register # << >>
  /\ \E i, j \in 1..Len(pending_log) :
       /\ i < j
       /\ pending_log[i].op = "AddSlave"
       /\ pending_log[j].op = "AddSlave"
       /\ pending_log[i].ip_port = pending_log[j].ip_port
       /\ pending_log[i].partition = pending_log[j].partition
       /\ pending_log[i].req # pending_log[j].req

\* C13: a Pull response that carries version E carries, for every table in
\* it, the table of topology revision E, whatever the UpdateThread
\* publishes while the Pull runs.
C13_PullAtomic ==
  (pull.pc = "done" /\ pull.status = "OK") =>
    \A i \in 1..Len(pull.info) : pull.info[i].rev = pull.version

\* C14: a DoTimingTask whose RefreshLeader found the local node to be the
\* log's leader does not call InfoStore.Refresh.
C14_RefreshOnFollowersOnly ==
  timing.leader = local_ip => ~timing.refreshed

\* the state the stable-leader specification starts in, which Start reaches
StableLeaderStarted ==
  /\ floyd_leader = local_ip
  /\ leader_joint = CleanLeader
  /\ refresh_ret = [leader |-> local_ip, status |-> "OK"]
  /\ restore_calls = 1
  /\ start_pc = "DoTimingTask"
  /\ ~should_exit
  /\ serving
  /\ loaded
  /\ timing = [leader |-> "unset", refreshed |-> FALSE]

\* C17: on a meta node that stays the leader and whose cron keeps ticking,
\* an UP storage node that sends no Ping and whose heartbeat age has
\* exceeded the TTL eventually gets a DownNode task from CheckNodeAlive.
C17_SilentNodeGoesDown ==
  ( /\ node_alive[IpPortString(NodeA.ip, NodeA.port)].state = "UP"
    /\ node_alive[IpPortString(NodeA.ip, NodeA.port)].age > kNodeAliveTTL )
  ~> (\E j \in 1..Len(pending_log) :
        pending_log[j] =
          UpdateTask("DownNode", IpPortString(NodeA.ip, NodeA.port),
                     "", 0, 0))

\* C20: Start leaves its startup loop only after a successful Refresh or
\* with should_exit_ set; the dispatcher is started only after a successful
\* Refresh and an OK startup RefreshLeader, with should_exit_ unset; with
\* should_exit_ set no DoTimingTask is started, and Start returns.
C20_StartLifecycle ==
  /\ [][(start_pc = "Refresh" /\ start_pc' # "Refresh")
          => (loaded \/ should_exit)]_vars
  /\ [][(serving' /\ ~serving)
          => /\ loaded
             /\ refresh_ret.status = "OK"
             /\ ~should_exit
             /\ start_pc = "StartThread"]_vars
  /\ [][should_exit => ~TimingTask]_vars
  /\ should_exit ~> (start_pc = "returned")

\* Start has served, and has returned after should_exit_ was set
C20_Witness ==
  /\ serving
  /\ should_exit
  /\ start_pc = "returned"
  /\ timing.leader # "unset"

\* C15: leader_joint_.mutex is not held while RefreshLeader is in its
\* Connect to a new leader or in InfoStore.RestoreNodeAlive, so that
\* IsLeader and RedirectToLeader callers do not wait behind them.
C15_NoLockAcrossIO ==
  refresh_io \in {"Connect", "RestoreNodeAlive"}
    => /\ joint_mutex # "RefreshLeader"
       /\ ENABLED Redirect => ENABLED RedirectLocked

\* C16: a Migrate that passes the epoch test and registers its plan calls
\* ProcessMigrate at least once and at most kInitMigrateRetryNum + 1
\* times, a further call only after an Incomplete one; it stops at the
\* first result that is not Incomplete and returns the status of its last
\* call.
C16_MigrateRetryBounded ==
  [][\A diffs \in DiffsInputs, ndebug \in BOOLEAN,
        fail_at \in 0..(kInitMigrateRetryNum + 1) :
       ( /\ ret'.op = "Migrate"
         /\ ret'.status \notin {"InvalidArgument", "AlreadyExists", "Abort"}
         /\ ret' # ret \/ migrate_register' # migrate_register
         /\ Migrate(info_store.epoch, diffs, ndebug, fail_at) )
       => /\ migrate_register' = diffs
          /\ ret'.calls \in 1..(kInitMigrateRetryNum + 1)
          /\ \A i \in 1..(ret'.calls - 1) :
               ProcessMigrateOn(diffs, i # fail_at, Staging).status
                 = "Incomplete"
          /\ ret'.status =
               ProcessMigrateOn(diffs, ret'.calls # fail_at, Staging).status
          /\ ret'.status = "Incomplete"
               => ret'.calls = kInitMigrateRetryNum + 1]_vars

\* a Migrate has used up its retries and returned Incomplete
C16_Witness ==
  ret = [op |-> "Migrate", status |-> "Incomplete",
         calls |-> kInitMigrateRetryNum + 1]

\* C18: after a RefreshLeader that returned OK the LeaderJoint agrees with
\* what the log reported to that call: IsLeader() holds exactly when the
\* log reported the local node, and there is a redirect connection exactly
\* when it reported another node, to that node's command port.
C18_JointAgreesWithLog ==
  refresh_ret.status = "OK" =>
    /\ IsLeader <=> refresh_ret.leader = local_ip
    /\ leader_joint.cli # NoCli <=> refresh_ret.leader \in MetaIps \ {local_ip}
    /\ leader_joint.cli # NoCli =>
         /\ leader_joint.ip = refresh_ret.leader
         /\ leader_joint.port = local_port + kMetaPortShiftCmd
         /\ leader_joint.cli =
              IpPortString(refresh_ret.leader, local_port + kMetaPortShiftCmd)

\* C19: a RefreshLeader whose Connect fails leaves the LeaderJoint with no
\* leader and no connection, so the next RefreshLeader that sees the same
\* leader connects again instead of taking the "No change" path; if the
\* leader stays the same and a Connect succeeds in the end, the follower
\* ends up with a connection to it.
C19_FailedConnectRetried ==
  /\ [][\A restored, connected \in BOOLEAN :
          ( /\ RefreshLeader(restored, connected)
            /\ refresh_ret'.status = "IOError"
            /\ refresh_ret'.leader # local_ip )
          => leader_joint' = CleanLeader]_vars
  /\ [][\A restored \in BOOLEAN :
          ( /\ refresh_ret.status = "IOError"
            /\ refresh_ret.leader = floyd_leader
            /\ floyd_leader \in MetaIps \ {local_ip}
            /\ RefreshLeader(restored, TRUE) )
          => /\ refresh_ret'.status = "OK"
             /\ leader_joint'.cli =
                  IpPortString(floyd_leader,
                               local_port + kMetaPortShiftCmd)]_vars
  /\ \A l \in MetaIps \ {local_ip} :
       <>[](floyd_leader = l)
         => <>(leader_joint.cli =
                 IpPortString(l, local_port + kMetaPortShiftCmd))

\* a Connect to the leader the log reports has failed
C19_Witness ==
  /\ refresh_ret.status = "IOError"
  /\ refresh_ret.leader \in MetaIps \ {local_ip}
  /\ refresh_ret.leader = floyd_leader
  /\ leader_joint = CleanLeader

====
